---- MODULE Spec2Model ----
(***************************************************************************)
(* Model of frm_regression_model.py: a Streamlit page that re-executes    *)
(* its whole script after every user interaction.  The state is the       *)
(* uploaded table, the two selection widgets and the page the last        *)
(* execution of the script rendered.                                       *)
(*                                                                         *)
(* The numerical library calls of the script (sm.add_constant, sm.OLS.fit, *)
(* durbin_watson, variance_inflation_factor) are modelled by what they     *)
(* compute, in exact rational arithmetic over small integer tables.        *)
(***************************************************************************)
EXTENDS Integers, Sequences, FiniteSets, TLC

\* ---------------------------------------------------------------- bounds
\* The most rows an uploaded table has.
MaxRows == 4

\* Column names of an uploaded table: it has the first c of these columns of
\* the MLR template, for some c from 0 up to Len(Header), so that a run
\* selects up to two independent variables.
Header == <<"Dependent_Y", "X1_Variable", "X2_Variable">>

\* The shapes a column of the uploaded table may take; the value in row i.
Patterns == {"zero", "one", "ramp", "step", "late", "cap"}

Val(p, i) ==
  CASE p = "zero" -> 0
    [] p = "one"  -> 1
    [] p = "ramp" -> i
    [] p = "step" -> IF i > 2 THEN 1 ELSE 0
    [] p = "late" -> IF i > 2 THEN i - 2 ELSE 0
    [] OTHER      -> IF i < 3 THEN i - 1 ELSE 2

\* ------------------------------------------------------- exact arithmetic
Abs(a) == IF a < 0 THEN -a ELSE a

RECURSIVE Gcd(_, _)
Gcd(a, b) == IF b = 0 THEN Abs(a) ELSE Gcd(b, a % Abs(b))

RECURSIVE GcdUpTo(_, _)
GcdUpTo(v, m) == IF m = 0 THEN 0 ELSE Gcd(GcdUpTo(v, m - 1), v[m])

RECURSIVE DotUpTo(_, _, _)
DotUpTo(u, v, m) == IF m = 0 THEN 0 ELSE DotUpTo(u, v, m - 1) + u[m] * v[m]

Dot(u, v) == DotUpTo(u, v, Len(u))

IsZero(v) == \A i \in 1..Len(v) : v[i] = 0

\* A vector known up to a positive scale: the vector is r / s.
Scaled(v) == [r |-> v, s |-> 1]

\* Remove from rs its component along u (u # 0), keeping integers.
ProjStep(rs, u) ==
  LET uu == Dot(u, u)
      ru == Dot(rs.r, u)
      r2 == [i \in 1..Len(u) |-> uu * rs.r[i] - ru * u[i]]
      s2 == rs.s * uu
      g  == Gcd(GcdUpTo(r2, Len(r2)), s2)
  IN  [r |-> [i \in 1..Len(u) |-> r2[i] \div g], s |-> s2 \div g]

RECURSIVE ProjUpTo(_, _, _)
ProjUpTo(rs, basis, m) ==
  IF m = 0 THEN rs ELSE ProjStep(ProjUpTo(rs, basis, m - 1), basis[m])

Primitive(v) ==
  LET g == GcdUpTo(v, Len(v))
  IN  IF g = 0 THEN v ELSE [i \in 1..Len(v) |-> v[i] \div g]

\* An orthogonal integer basis of the span of the first m vectors of cols.
RECURSIVE OrthoUpTo(_, _)
OrthoUpTo(cols, m) ==
  IF m = 0 THEN <<>>
  ELSE LET b == OrthoUpTo(cols, m - 1)
           r == Primitive(ProjUpTo(Scaled(cols[m]), b, Len(b)).r)
       IN  IF IsZero(r) THEN b ELSE Append(b, r)

\* Least-squares residual of v regressed on the columns cols.  A rank
\* deficient cols is no obstacle: the pseudo-inverse solution has the same
\* fitted values as the projection onto the column space.
Residual(v, cols) ==
  LET b == OrthoUpTo(cols, Len(cols)) IN ProjUpTo(Scaled(v), b, Len(b))

Rank(cols) == Len(OrthoUpTo(cols, Len(cols)))

InSpan(v, cols) == IsZero(Residual(v, cols).r)

\* ----------------------------------------------------------------- floats
\* A float64 result: a finite ratio n/d, +infinity (or a value beyond every
\* threshold, when rounding leaves 1 - R^2 a hair above zero), or NaN.
NaN == [kind |-> "nan", n |-> 0, d |-> 1]
Inf == [kind |-> "inf", n |-> 1, d |-> 1]
Num(n, d) == LET g == Gcd(n, d) IN [kind |-> "num", n |-> n \div g, d |-> d \div g]

\* IEEE comparison: every comparison with NaN is false.
Less(a, b) ==
  /\ a.kind # "nan" /\ b.kind # "nan"
  /\ \/ a.kind = "num" /\ b.kind = "inf"
     \/ a.kind = "num" /\ b.kind = "num" /\ a.n * b.d < b.n * a.d

Greater(a, b) == Less(b, a)

\* x / y of non-negative floats given as exact integers: 0/0 is NaN.
Divide(x, y) ==
  IF y = 0 THEN (IF x = 0 THEN NaN ELSE Inf) ELSE Num(x, y)

\* ------------------------------------------------------------- the table
\* A DataFrame: n rows, one pattern per column; column j is named Header[j].
all_columns(d) == [j \in 1..Len(d.pat) |-> Header[j]]

ColIndex(c) == CHOOSE j \in 1..Len(Header) : Header[j] = c

Column(d, c) == [i \in 1..d.n |-> Val(d.pat[ColIndex(c)], i)]

Ones(n) == [i \in 1..n |-> 1]

Range(s) == {s[i] : i \in 1..Len(s)}

\* ------------------------------------------------------ library calls
\* np.ptp(s) == 0.0 and np.any(s != 0.0): the test sm.add_constant applies to
\* every column of a DataFrame.
safe_is_const(v) ==
  /\ Len(v) > 0
  /\ \A i \in 1..Len(v) : v[i] = v[1]
  /\ \E i \in 1..Len(v) : v[i] # 0

\* sm.add_constant(X), has_constant = 'skip' by default: a column named
\* "const" is prepended unless X already holds a non-zero constant column,
\* and then X comes back unchanged.
add_constant(d, X) ==
  IF \E j \in 1..Len(X) : safe_is_const(Column(d, X[j]))
  THEN X
  ELSE <<"const">> \o X

ExogColumn(d, c) == IF c = "const" THEN Ones(d.n) ELSE Column(d, c)

Exog(d, names) == [j \in 1..Len(names) |-> ExogColumn(d, names[j])]

\* sm.OLS(y, X_with_const).fit(): the default method is the pseudo-inverse,
\* which returns a result for every design matrix, singular ones included.
\* params is indexed by the columns of the design matrix.
OLS_fit(d, yv, exog_names) ==
  [params |-> exog_names,
   resid  |-> Residual(Column(d, yv), Exog(d, exog_names)).r,
   rank   |-> Rank(Exog(d, exog_names)),
   nobs   |-> d.n]

RECURSIVE DiffSqUpTo(_, _)
DiffSqUpTo(e, m) ==
  IF m < 2 THEN 0
  ELSE DiffSqUpTo(e, m - 1) + (e[m] - e[m - 1]) * (e[m] - e[m - 1])

\* durbin_watson(resid) = sum(diff(resid)^2) / sum(resid^2).  The residuals
\* here are exact: all of them vanish on a perfect fit and the quotient is
\* 0/0.  In float64 that is what happens when y is zero throughout; a perfect
\* fit of another y leaves rounding noise in the residuals instead.
durbin_watson(resid) == Divide(DiffSqUpTo(resid, Len(resid)), Dot(resid, resid))

Without(s, i) == [j \in 1..(Len(s) - 1) |-> IF j < i THEN s[j] ELSE s[j + 1]]

\* The regressors of the auxiliary regression that
\* variance_inflation_factor(exog, i) runs: the columns of exog other than
\* column i, and nothing else.
vif_regressors(exog_names, i) == Without(exog_names, i)

\* 1 / (1 - R^2) of a regression of x_i that left the residual e, where
\* 1 - R^2 = ssr / tss; tss is centered when the regressors span a constant
\* (k_constant) and uncentered otherwise.
InflationFactor(x_i, e, k_constant) ==
  LET n      == Len(x_i)
      sum    == Dot(x_i, Ones(n))
      tssNum == IF k_constant THEN n * Dot(x_i, x_i) - sum * sum ELSE Dot(x_i, x_i)
      tssDen == IF k_constant THEN n ELSE 1
  IN  Divide(tssNum * e.s * e.s, tssDen * Dot(e.r, e.r))

\* OLS(x_i, x_noti).fit().rsquared, turned into 1 / (1 - R^2).
AuxiliaryFit(x_i, x_noti) ==
  InflationFactor(x_i, Residual(x_i, x_noti), InSpan(Ones(Len(x_i)), x_noti))

\* variance_inflation_factor(exog, i) = 1 / (1 - R^2_i), R^2_i from
\* OLS(exog[:, i], exog[:, others]).fit(): no column is added to exog.
variance_inflation_factor(d, exog_names, i) ==
  AuxiliaryFit(ExogColumn(d, exog_names[i]), Exog(d, vif_regressors(exog_names, i)))

\* Series.max() skips NaN; a column of NaN only has maximum NaN.
RECURSIVE MaxUpTo(_, _)
MaxUpTo(vs, m) ==
  IF m = 0 THEN NaN
  ELSE LET rest == MaxUpTo(vs, m - 1)
       IN  IF vs[m].kind = "nan" THEN rest
           ELSE IF rest.kind = "nan" \/ Less(rest, vs[m]) THEN vs[m]
           ELSE rest

series_max(vs) == MaxUpTo(vs, Len(vs))

\* ---------------------------------------------------------------- state
\* uploaded_file: whether the uploader holds a file
\* df:            the table read from it
\* y_var:         the selectbox: a column name, "" when it has no option
\* x_vars:        the multiselect: column names in the order they were picked
\* page:          what the last execution of the script put on the page
\* remembered:    an earlier run (its inputs and its page), or NoRun
VARIABLES uploaded_file, df, y_var, x_vars, page, remembered

vars == <<uploaded_file, df, y_var, x_vars, page, remembered>>

NoTable == [n |-> 0, pat |-> <<>>]

\* ----------------------------------------------------------- the script
\* The page of a run that renders nothing beyond the fixed frame.
BlankPage ==
  [steps     |-> <<>>,   \* the stages the run went through, in order
   warning   |-> FALSE,  \* "please upload a file"
   preview   |-> FALSE,  \* st.dataframe(df.head(5))
   error     |-> "",     \* the st.error of the degrees-of-freedom check
   errN      |-> 0,      \* the sample size and parameter count it prints
   errP      |-> 0,
   design    |-> <<>>,   \* the columns of X_with_const
   metrics   |-> <<>>,   \* the metric cards
   dw        |-> NaN,    \* dw_stat
   dwLabel   |-> "",     \* the Durbin-Watson message
   coef      |-> <<>>,   \* the rows of summary_df
   vif       |-> <<>>,   \* the rows of vif_data
   verdict   |-> "",     \* the collinearity message
   chart     |-> FALSE,  \* the fitted-line chart
   sheets    |-> <<>>,   \* the sheets of the exported workbook
   stats     |-> <<>>,   \* the rows of stats_df
   nobs      |-> 0,      \* its Observations value
   download  |-> FALSE]  \* the report download button

\* Lines 110-115.
DWLabel(dw_stat) ==
  IF Less(dw_stat, Num(3, 2)) THEN "positive"
  ELSE IF Greater(dw_stat, Num(5, 2)) THEN "negative"
  ELSE "none"

\* Lines 134-139.
VIFVerdict(vif_max) ==
  IF Greater(vif_max, Num(10, 1)) THEN "severe"
  ELSE IF Greater(vif_max, Num(5, 1)) THEN "moderate"
  ELSE "good"

\* Lines 126-128: one row per column of X, in its order.
VIFData(d, X) ==
  [i \in 1..Len(X) |->
     [Variable   |-> X[i],
      VIF        |-> variance_inflation_factor(d, X, i),
      regressors |-> vif_regressors(X, i)]]

\* The export with a collinearity sheet for every fit.
ReportSheets_always(X) ==
  <<"coefficients">> \o (IF Len(X) > 0 THEN <<"vif">> ELSE <<>>) \o <<"stats">>

\* Lines 150-161: the sheets written to the workbook, in writing order.
ReportSheets(X) ==
  <<"coefficients">> \o (IF Len(X) > 1 THEN <<"vif">> ELSE <<>>) \o <<"stats">>

\* Lines 90-168: the branch taken once the degrees-of-freedom check passed.
Analysis(d, yv, X) ==
  LET X_with_const == add_constant(d, X)
      model        == OLS_fit(d, yv, X_with_const)
      dw_stat      == durbin_watson(model.resid)
      mlr          == Len(X) > 1
      vif_data     == IF mlr THEN VIFData(d, X) ELSE <<>>
      vif_max      == series_max([i \in 1..Len(vif_data) |-> vif_data[i].VIF])
  IN  [BlankPage EXCEPT
         !.steps    = <<"read", "select", "guard", "dfcheck", "design", "fit",
                        "metrics", "dw", "dwlabel", "coef">>
                      \o (IF mlr THEN <<"vif", "verdict">> ELSE <<>>)
                      \o (IF Len(X) = 1 THEN <<"chart">> ELSE <<>>)
                      \o <<"export", "download">>,
         !.preview  = TRUE,
         !.design   = X_with_const,
         !.metrics  = <<"R-Squared", "Adj. R-Squared", "F-statistic", "Durbin-Watson">>,
         !.dw       = dw_stat,
         !.dwLabel  = DWLabel(dw_stat),
         !.coef     = model.params,
         !.vif      = vif_data,
         !.verdict  = IF mlr THEN VIFVerdict(vif_max) ELSE "",
         !.chart    = (Len(X) = 1),
         !.sheets   = ReportSheets(X),
         !.stats    = <<"R-Squared", "Adj. R-Squared", "F-stat", "Durbin-Watson", "Observations">>,
         !.nobs     = model.nobs,
         !.download = TRUE]

\* The script with a degrees-of-freedom check that lets N = k+1 through.
Script_offbyone(up, d, yv, X) ==
  IF ~up THEN
    [BlankPage EXCEPT !.steps = <<"warning">>, !.warning = TRUE]
  ELSE IF ~(yv # "" /\ X # <<>>) THEN
    [BlankPage EXCEPT !.steps = <<"read", "select", "guard">>, !.preview = TRUE]
  ELSE IF d.n < Len(X) + 1 THEN
    [BlankPage EXCEPT !.steps = <<"read", "select", "guard", "dfcheck", "error">>,
                      !.preview = TRUE,
                      !.error = "insufficient sample",
                      !.errN = d.n,
                      !.errP = Len(X) + 1]
  ELSE Analysis(d, yv, X)

\* The script with an error message that leaves the intercept out of p.
Script_wrongp(up, d, yv, X) ==
  IF ~up THEN
    [BlankPage EXCEPT !.steps = <<"warning">>, !.warning = TRUE]
  ELSE IF ~(yv # "" /\ X # <<>>) THEN
    [BlankPage EXCEPT !.steps = <<"read", "select", "guard">>, !.preview = TRUE]
  ELSE IF d.n <= Len(X) + 1 THEN
    [BlankPage EXCEPT !.steps = <<"read", "select", "guard", "dfcheck", "error">>,
                      !.preview = TRUE,
                      !.error = "insufficient sample",
                      !.errN = d.n,
                      !.errP = Len(X)]
  ELSE Analysis(d, yv, X)

\* The script with a guard that tests the dependent variable only.
Script_noguard(up, d, yv, X) ==
  IF ~up THEN
    [BlankPage EXCEPT !.steps = <<"warning">>, !.warning = TRUE]
  ELSE IF ~(yv # "") THEN
    [BlankPage EXCEPT !.steps = <<"read", "select", "guard">>, !.preview = TRUE]
  ELSE IF d.n <= Len(X) + 1 THEN
    [BlankPage EXCEPT !.steps = <<"read", "select", "guard", "dfcheck", "error">>,
                      !.preview = TRUE,
                      !.error = "insufficient sample",
                      !.errN = d.n,
                      !.errP = Len(X) + 1]
  ELSE Analysis(d, yv, X)

\* Lines 64-170: one execution of the script.
Script(up, d, yv, X) ==
  IF ~up THEN
    [BlankPage EXCEPT !.steps = <<"warning">>, !.warning = TRUE]
  ELSE IF ~(yv # "" /\ X # <<>>) THEN
    [BlankPage EXCEPT !.steps = <<"read", "select", "guard">>, !.preview = TRUE]
  ELSE IF d.n <= Len(X) + 1 THEN
    [BlankPage EXCEPT !.steps = <<"read", "select", "guard", "dfcheck", "error">>,
                      !.preview = TRUE,
                      !.error = "insufficient sample",
                      !.errN = d.n,
                      !.errP = Len(X) + 1]
  ELSE Analysis(d, yv, X)

\* -------------------------------------------------------------- actions
NoRun == [taken |-> FALSE, between |-> FALSE, df |-> NoTable, y_var |-> "",
          x_vars |-> <<>>, page |-> BlankPage]

\* The remembered run, after a run on table d with selection yv, X: it
\* records whether a run on other inputs has happened since.
Track(d, yv, X) ==
  IF remembered.taken /\ <<d, yv, X>> # <<remembered.df, remembered.y_var, remembered.x_vars>>
  THEN [remembered EXCEPT !.between = TRUE]
  ELSE remembered

\* Before any upload the script renders only the upload prompt.
Init ==
  /\ uploaded_file = FALSE
  /\ df = NoTable
  /\ y_var = ""
  /\ x_vars = <<>>
  /\ page = Script(FALSE, NoTable, "", <<>>)
  /\ remembered = NoRun

\* st.selectbox without a stored choice shows its first option.
DefaultY(d) == IF Len(d.pat) = 0 THEN "" ELSE Header[1]

\* An upload that keeps the page of the last report when the new table has
\* the columns and the row count of the old one, as a result cache keyed on
\* the selection would.
Reupload_stale(d) ==
  LET keep == uploaded_file /\ all_columns(d) = all_columns(df)
      yv   == IF keep THEN y_var ELSE DefaultY(d)
      X    == IF keep THEN x_vars ELSE <<>>
  IN  /\ uploaded_file' = TRUE
      /\ df' = d
      /\ y_var' = yv
      /\ x_vars' = X
      /\ page' = IF keep /\ page.download /\ d.n = df.n
                 THEN page
                 ELSE Script(TRUE, d, yv, X)
      /\ remembered' = Track(d, yv, X)

\* A file arrives in the uploader and the script runs.  The two widgets keep
\* their value while their options stay the same and fall back to their
\* defaults otherwise.
Reupload(d) ==
  LET keep == uploaded_file /\ all_columns(d) = all_columns(df)
      yv   == IF keep THEN y_var ELSE DefaultY(d)
      X    == IF keep THEN x_vars ELSE <<>>
  IN  /\ uploaded_file' = TRUE
      /\ df' = d
      /\ y_var' = yv
      /\ x_vars' = X
      /\ page' = Script(TRUE, d, yv, X)
      /\ remembered' = Track(d, yv, X)

\* A new file: a header of c columns and no data row yet.
UploadFile(c) ==
  Reupload([n |-> 0, pat |-> [j \in 1..c |-> "zero"]])

\* The file is uploaded again with one more row, ...
AppendRow ==
  /\ uploaded_file
  /\ Len(df.pat) > 0
  /\ df.n < MaxRows
  /\ Reupload([df EXCEPT !.n = df.n + 1])

\* ... with its last row removed, ...
DropRow ==
  /\ uploaded_file
  /\ df.n > 0
  /\ Reupload([df EXCEPT !.n = df.n - 1])

\* ... or with other values in column j.
EditColumn(j, p) ==
  /\ uploaded_file
  /\ j \in 1..Len(df.pat)
  /\ df.pat[j] # p
  /\ Reupload([df EXCEPT !.pat[j] = p])

\* The file is removed from the uploader.
RemoveFile ==
  /\ uploaded_file
  /\ uploaded_file' = FALSE
  /\ df' = NoTable
  /\ y_var' = ""
  /\ x_vars' = <<>>
  /\ page' = Script(FALSE, NoTable, "", <<>>)
  /\ remembered' = Track(NoTable, "", <<>>)

Remove(s, c) == SelectSeq(s, LAMBDA e : e # c)

\* Another dependent variable is chosen.  The options of the multiselect
\* exclude it (line 82): the multiselect either falls back to empty or keeps
\* the picks that are still options.
SelectY(c) ==
  /\ uploaded_file
  /\ c \in Range(all_columns(df))
  /\ c # y_var
  /\ \E X \in {<<>>, Remove(x_vars, c)} :
       /\ x_vars' = X
       /\ page' = Script(TRUE, df, c, X)
       /\ remembered' = Track(df, c, X)
  /\ y_var' = c
  /\ UNCHANGED <<uploaded_file, df>>

\* An independent variable is picked; it goes to the end of the list.
AddX(c) ==
  /\ uploaded_file
  /\ c \in Range(all_columns(df)) \ {y_var}
  /\ c \notin Range(x_vars)
  /\ x_vars' = Append(x_vars, c)
  /\ page' = Script(TRUE, df, y_var, x_vars')
  /\ remembered' = Track(df, y_var, x_vars')
  /\ UNCHANGED <<uploaded_file, df, y_var>>

\* An independent variable is unpicked.
RemoveX(c) ==
  /\ uploaded_file
  /\ c \in Range(x_vars)
  /\ x_vars' = Remove(x_vars, c)
  /\ page' = Script(TRUE, df, y_var, x_vars')
  /\ remembered' = Track(df, y_var, x_vars')
  /\ UNCHANGED <<uploaded_file, df, y_var>>

Next ==
  \/ \E c \in 0..Len(Header) : UploadFile(c)
  \/ AppendRow
  \/ DropRow
  \/ \E j \in 1..Len(Header), p \in Patterns : EditColumn(j, p)
  \/ RemoveFile
  \/ \E c \in Range(Header) : SelectY(c)
  \/ \E c \in Range(Header) : AddX(c)
  \/ \E c \in Range(Header) : RemoveX(c)

Spec == Init /\ [][Next]_vars

\* ------------------------------------------------ remembering one run
\* The table and the independent variables of the run that is remembered.
ReferenceTable == [n |-> MaxRows, pat |-> <<"cap", "ramp", "step">>]

ReferenceX == <<Header[2], Header[3]>>

\* The inputs and the page of the current run are noted, once, for
\* comparison with every later run.  Nothing of the program changes.
Remember ==
  /\ ~remembered.taken
  /\ uploaded_file
  /\ df = ReferenceTable
  /\ y_var = Header[1]
  /\ x_vars = ReferenceX
  /\ remembered' = [taken |-> TRUE, between |-> FALSE, df |-> df,
                    y_var |-> y_var, x_vars |-> x_vars, page |-> page]
  /\ UNCHANGED <<uploaded_file, df, y_var, x_vars, page>>

NextHistory == Next \/ Remember

SpecHistory == Init /\ [][NextHistory]_vars

\* ------------------------------------------------------------ properties
k == Len(x_vars)
N == df.n

\* The run had a dependent variable and at least one independent variable.
Selected == uploaded_file /\ y_var # "" /\ x_vars # <<>>

Reached(step) == step \in Range(page.steps)

Before(a, b) ==
  \E i, j \in 1..Len(page.steps) : i < j /\ page.steps[i] = a /\ page.steps[j] = b

\* None of the result outputs is on the page.
NoResults ==
  /\ page.metrics = <<>> /\ page.dwLabel = "" /\ page.coef = <<>>
  /\ page.vif = <<>> /\ page.verdict = "" /\ ~page.chart
  /\ page.sheets = <<>> /\ page.stats = <<>> /\ ~page.download

\* a <= b on floats: false when either is NaN.
LessEq(a, b) == a.kind # "nan" /\ b.kind # "nan" /\ ~Less(b, a)

\* C1: with a non-empty selection of k independent variables on N rows the
\* fit is attempted iff N > k+1, N <= k+1 ends in the insufficient-sample
\* error, and a run that reaches the fit has passed the degrees-of-freedom
\* check first.
Thm_C1 ==
  Selected =>
    /\ Reached("fit") <=> N > k + 1
    /\ N <= k + 1 => page.error = "insufficient sample"
    /\ Reached("fit") => Before("dfcheck", "fit")

\* The minimum valid sample, N = k+2, has been fitted.
Witness_C1 == Selected /\ N = k + 2 /\ Reached("fit") /\ page.download

\* C2: a run that fails the degrees-of-freedom check reports exactly N and
\* p = k+1, ends there, and shows none of the result outputs.
Thm_C2 ==
  (Selected /\ N <= k + 1) =>
    /\ page.error = "insufficient sample"
    /\ page.errN = N
    /\ page.errP = k + 1
    /\ page.steps[Len(page.steps)] = "error"
    /\ page.design = <<>>
    /\ NoResults

\* N = 2 rows against p = 2 parameters.
Witness_C2 == Selected /\ N = 2 /\ k = 1 /\ page.error # "" /\ page.errP = 2

Singular == Rank(Exog(df, <<"const">> \o x_vars)) < k + 1

\* C4: a selection that passes the degrees-of-freedom check with perfectly
\* collinear regressors ends in the singular-design-matrix error and exposes
\* no fit result.
Claim_C4 ==
  (Selected /\ N > k + 1 /\ Singular) =>
    /\ page.error = "singular design matrix"
    /\ NoResults

\* C5: exactly one autocorrelation label accompanies the Durbin-Watson value
\* of a fit: positive iff DW < 1.5, negative iff DW > 2.5, none iff
\* 1.5 <= DW <= 2.5.
Claim_C5 ==
  Reached("fit") =>
    /\ page.dwLabel \in {"positive", "negative", "none"}
    /\ page.dwLabel = "positive" <=> Less(page.dw, Num(3, 2))
    /\ page.dwLabel = "negative" <=> Greater(page.dw, Num(5, 2))
    /\ page.dwLabel = "none" <=>
         (LessEq(Num(3, 2), page.dw) /\ LessEq(page.dw, Num(5, 2)))

\* Some selected variable is an exact linear combination of the others.
PerfectlyCollinear ==
  \E j \in 1..k : InSpan(Column(df, x_vars[j]), Exog(df, Without(x_vars, j)))

\* The largest of the VIF values of the page is v.
MaxVIFIs(v) ==
  /\ \E i \in 1..Len(page.vif) : page.vif[i].VIF = v
  /\ \A i \in 1..Len(page.vif) : LessEq(page.vif[i].VIF, v)

\* C6: with k > 1 one collinearity verdict is shown, decided by the largest
\* VIF: severe iff it exceeds 10, moderate iff it is in (5, 10], no notable
\* collinearity iff it is at most 5; a perfectly collinear regressor gives
\* severe.
Claim_C6 ==
  (Reached("fit") /\ k > 1) =>
    /\ page.verdict \in {"severe", "moderate", "good"}
    /\ \E v \in {page.vif[i].VIF : i \in 1..Len(page.vif)} :
         /\ MaxVIFIs(v)
         /\ page.verdict = "severe" <=> Greater(v, Num(10, 1))
         /\ page.verdict = "moderate" <=>
              (Greater(v, Num(5, 1)) /\ LessEq(v, Num(10, 1)))
         /\ page.verdict = "good" <=> LessEq(v, Num(5, 1))
    /\ PerfectlyCollinear => page.verdict = "severe"

\* C7: in a successful run the VIF table, the collinearity verdict and the
\* collinearity sheet exist iff k > 1; the coefficient sheet, the summary
\* sheet with its five rows and the Durbin-Watson value exist for every k.
Thm_C7 ==
  Reached("fit") =>
    /\ page.vif # <<>> <=> k > 1
    /\ page.verdict # "" <=> k > 1
    /\ "vif" \in Range(page.sheets) <=> k > 1
    /\ "coefficients" \in Range(page.sheets)
    /\ "stats" \in Range(page.sheets)
    /\ page.stats = <<"R-Squared", "Adj. R-Squared", "F-stat", "Durbin-Watson",
                      "Observations">>
    /\ "Durbin-Watson" \in Range(page.metrics)
    /\ Reached("dw")

\* A successful run on two independent variables, with its three sheets.
Witness_C7 ==
  /\ Reached("fit") /\ k = 2 /\ Len(page.vif) = 2
  /\ page.sheets = <<"coefficients", "vif", "stats">>

\* C8: the design matrix of a fit has k+1 columns, "const" first and then
\* the selected columns in order, so the coefficient table has k+1 rows with
\* a "const" row and the k+1 of the degrees-of-freedom check is the number
\* of parameters estimated.
Claim_C8 ==
  Reached("fit") =>
    /\ page.design = <<"const">> \o x_vars
    /\ Len(page.coef) = k + 1
    /\ "const" \in Range(page.coef)

\* C9: with k > 1 there is one VIF per selected variable, in selection
\* order, each from an auxiliary regression on the other selected variables
\* together with an intercept.
Claim_C9 ==
  (Reached("fit") /\ k > 1) =>
    /\ Len(page.vif) = k
    /\ \A j \in 1..Len(page.vif) :
         /\ page.vif[j].Variable = x_vars[j]
         /\ Range(page.vif[j].regressors) =
              {"const"} \cup (Range(x_vars) \ {x_vars[j]})

====
